---- MODULE Spec2Model ----
(***************************************************************************)
(* A model of the Katappa compiler (src/katappa_compiler.py): the four     *)
(* stages of Compiler.compile() over one source buffer.  The source is a   *)
(* sequence of lexical items (what one regex match of _tokenize yields);   *)
(* the stages are the actions Tokenize, Categorize, Analyze and the steps  *)
(* of the recursive generator _generate_assembly_for_block, whose call     *)
(* stack is the variable frames.                                           *)
(***************************************************************************)
EXTENDS Integers, Sequences, FiniteSets

VARIABLES
    source_code,      \* Compiler.source_code, as a sequence of lexical items
    pc,               \* the stage compile() is in
    raised,           \* the exception that left compile(), or NoError
    tokens,           \* Compiler.tokens: <<lexeme, line>> pairs
    pst,              \* Compiler.pst: the rows, decorated in place
    symbol_table,     \* Compiler.symbol_table: name -> row of its declaration
    string_literals,  \* Compiler.string_literals: insertion-ordered literal -> label
    stack_size,       \* Compiler.stack_size
    label_count,      \* Compiler.label_count
    loop_end_stack,   \* Compiler.loop_end_stack
    data_section,     \* data_section of _generate_toplevel_assembly
    frames,           \* activations of _generate_assembly_for_block, outermost first
    asm,              \* the asm lists of the activations, in emission order
    output            \* what compile() returned: the lines of full_assembly

vars == <<source_code, pc, raised, tokens, pst, symbol_table, string_literals,
          stack_size, label_count, loop_end_stack, data_section, frames, asm, output>>

(***************************************************************************)
(* Bounds of the model.                                                    *)
(***************************************************************************)
MaxControl == 4     \* pieces of a control-flow program
MaxCompare == 3     \* pieces of a comparison program
MaxDecl == 3        \* pieces of a declaration program
MaxRaw == 3         \* pieces of an unstructured program
MaxVal == 2         \* operand values range over -MaxVal..MaxVal

(***************************************************************************)
(* Lexical items.  A lexeme is a string; its shape (what startswith and    *)
(* isdigit answer) is given by the set it belongs to.                      *)
(***************************************************************************)
VariableLexemes == {".x", ".y"}
NumericLexemes == {"1", "5", "-3"}
StringLexemes == {"\"a\"", "\"b\"", "\"c\""}
Comparators == {"==", "!=", ">", "<", ">=", "<="}
OperatorLexemes == {"=", "+", "-", "*", "/"} \cup Comparators
DelimiterLexemes == {":", "{", "}", ";"}
Discarded == {"\n", " ", "##"}
Mismatch == {"@"}

NewlinesIn(value) == IF value = "\n" THEN 1 ELSE 0

KEYWORDS ==
    [l \in {"num", "let", "fix", "when", "other", "loop", "stop", "print"}
           \cup OperatorLexemes \cup DelimiterLexemes |->
        CASE l = "num" -> "Type"
          [] l \in {"let", "fix"} -> "Mutability"
          [] l \in {"when", "other", "loop", "stop"} -> "Control"
          [] l = "print" -> "Io"
          [] l \in OperatorLexemes -> "Operator"
          [] OTHER -> "Delimiter"]

(***************************************************************************)
(* Exceptions.  CompilationError carries a message and a line; IndexError  *)
(* and KeyError are Python's own.                                          *)
(***************************************************************************)
NoError == [type |-> "None", message |-> "", line |-> 0]
CompilationError(message, line) ==
    [type |-> "CompilationError", message |-> message, line |-> line]
IndexError == [type |-> "IndexError", message |-> "", line |-> 0]
KeyError == [type |-> "KeyError", message |-> "", line |-> 0]

NoLocation == 0     \* PstRow.mem_location = None

PstRow(lexeme, category, line) ==
    [lexeme |-> lexeme, category |-> category, line |-> line,
     mem_location |-> NoLocation]

EmptyTable == [n \in {} |-> PstRow("", "", 0)]

(***************************************************************************)
(* Stage 1: _tokenize.                                                     *)
(***************************************************************************)
RECURSIVE TokenizeFrom(_, _, _, _)
TokenizeFrom(src, k, line_num, toks) ==
    IF k > Len(src) THEN [tokens |-> toks, raised |-> NoError]
    ELSE LET value == src[k] IN
         IF value \in Discarded
         THEN TokenizeFrom(src, k + 1, line_num + NewlinesIn(value), toks)
         ELSE IF value \in Mismatch
         THEN [tokens |-> toks,
               raised |-> CompilationError("Unexpected character", line_num)]
         ELSE TokenizeFrom(src, k + 1, line_num + NewlinesIn(value),
                           Append(toks, <<value, line_num>>))

Tokenize ==
    /\ pc = "tokenize"
    /\ raised = NoError
    /\ LET r == TokenizeFrom(source_code, 1, 1, <<>>) IN
        /\ tokens' = r.tokens
        /\ raised' = r.raised
        /\ pc' = IF r.raised = NoError THEN "categorize" ELSE pc
    /\ UNCHANGED <<source_code, pst, symbol_table, string_literals, stack_size,
                   label_count, loop_end_stack, data_section, frames, asm, output>>

(***************************************************************************)
(* Stage 2: _stage2_categorize.                                            *)
(***************************************************************************)
Category(lexeme) ==
    IF lexeme \in VariableLexemes THEN "Variable"
    ELSE IF lexeme \in NumericLexemes THEN "NumericLiteral"
    ELSE IF lexeme \in StringLexemes THEN "StringLiteral"
    ELSE IF lexeme \in DOMAIN KEYWORDS THEN KEYWORDS[lexeme]
    ELSE "Unknown"

RECURSIVE CategorizeFrom(_, _, _)
CategorizeFrom(toks, k, rows) ==
    IF k > Len(toks) THEN [pst |-> rows, raised |-> NoError]
    ELSE LET lexeme == toks[k][1]
             line == toks[k][2]
         IN IF Category(lexeme) = "Unknown"
            THEN [pst |-> rows, raised |-> CompilationError("Unknown symbol", line)]
            ELSE CategorizeFrom(toks, k + 1,
                                Append(rows, PstRow(lexeme, Category(lexeme), line)))

Categorize ==
    /\ pc = "categorize"
    /\ raised = NoError
    /\ LET r == CategorizeFrom(tokens, 1, <<>>) IN
        /\ pst' = r.pst
        /\ raised' = r.raised
        /\ pc' = IF r.raised = NoError THEN "analyze" ELSE pc
    /\ UNCHANGED <<source_code, tokens, symbol_table, string_literals, stack_size,
                   label_count, loop_end_stack, data_section, frames, asm, output>>

(***************************************************************************)
(* Labels: _get_unique_label.  The text ".L_<prefix>_<count>" is determined *)
(* by, and determines, the pair of its prefix and count.                   *)
(***************************************************************************)
Label(prefix, count) == [prefix |-> prefix, n |-> count]

\* A counter that is not advanced: every label gets the same number.
StuckLabelCount(count) == count

NextLabelCount(count) == count + 1

(***************************************************************************)
(* Stage 3: _stage3_analyze.  string_literals is a Python dict, which      *)
(* keeps its keys in insertion order: a sequence of (literal, label).      *)
(***************************************************************************)
HasLiteral(literals, lexeme) ==
    \E k \in 1..Len(literals) : literals[k].literal = lexeme

LabelOf(literals, lexeme) ==
    LET k == CHOOSE j \in 1..Len(literals) : literals[j].literal = lexeme
    IN literals[k].label

IsDeclarationPattern(var, colon, type_kw, semi) ==
    /\ var.category = "Variable"
    /\ colon.lexeme = ":"
    /\ type_kw.category = "Type"
    /\ semi.lexeme = ";"

\* The line of the declaring keyword instead of the variable's.
KeywordLine(row, var) == row.line

DuplicateDeclarationLine(row, var) == var.line

AlignedStackSize(size) ==
    IF size % 16 # 0 THEN size + (16 - (size % 16)) ELSE size

\* One run of the while loop from the state s; i is the 0-based cursor.
RECURSIVE AnalyzeFrom(_)
AnalyzeFrom(s) ==
    IF s.i >= Len(s.pst) THEN s
    ELSE LET row == s.pst[s.i + 1] IN
      IF row.category = "Mutability" THEN
        IF Len(s.pst) - (s.i + 1) < 4
        THEN [s EXCEPT !.raised =
                 CompilationError("Incomplete variable declaration.", row.line)]
        ELSE LET var == s.pst[s.i + 2]
                 colon == s.pst[s.i + 3]
                 type_kw == s.pst[s.i + 4]
                 semi == s.pst[s.i + 5]
             IN IF ~IsDeclarationPattern(var, colon, type_kw, semi)
                THEN [s EXCEPT !.raised =
                         CompilationError("Invalid variable declaration.", row.line)]
                ELSE IF var.lexeme \in DOMAIN s.symbol_table
                THEN [s EXCEPT !.raised =
                         CompilationError("already declared",
                                          DuplicateDeclarationLine(row, var))]
                ELSE LET size == s.stack_size + 8
                         declared == [var EXCEPT !.mem_location = size]
                     IN AnalyzeFrom(
                          [s EXCEPT !.stack_size = size,
                                    !.pst = [s.pst EXCEPT ![s.i + 2] = declared],
                                    !.symbol_table =
                                        [n \in DOMAIN s.symbol_table \cup {var.lexeme} |->
                                            IF n = var.lexeme THEN declared
                                            ELSE s.symbol_table[n]],
                                    !.i = s.i + 4 + 1])
      ELSE IF row.category = "StringLiteral" THEN
        IF ~HasLiteral(s.string_literals, row.lexeme)
        THEN LET count == NextLabelCount(s.label_count) IN
             AnalyzeFrom([s EXCEPT !.label_count = count,
                                   !.string_literals =
                                       Append(s.string_literals,
                                              [literal |-> row.lexeme,
                                               label |-> Label("STR", count)]),
                                   !.i = s.i + 1])
        ELSE AnalyzeFrom([s EXCEPT !.i = s.i + 1])
      ELSE IF row.category = "Variable" THEN
        IF row.lexeme \notin DOMAIN s.symbol_table
        THEN [s EXCEPT !.raised =
                 CompilationError("Use of undeclared variable", row.line)]
        ELSE AnalyzeFrom(
               [s EXCEPT !.pst = [s.pst EXCEPT ![s.i + 1].mem_location =
                                     s.symbol_table[row.lexeme].mem_location],
                         !.i = s.i + 1])
      ELSE AnalyzeFrom([s EXCEPT !.i = s.i + 1])

Analyze ==
    /\ pc = "analyze"
    /\ raised = NoError
    /\ LET r == AnalyzeFrom([i |-> 0, pst |-> pst, symbol_table |-> symbol_table,
                             string_literals |-> string_literals,
                             stack_size |-> stack_size, label_count |-> label_count,
                             raised |-> NoError])
       IN
        /\ pst' = r.pst
        /\ symbol_table' = r.symbol_table
        /\ string_literals' = r.string_literals
        /\ label_count' = r.label_count
        /\ raised' = r.raised
        /\ stack_size' = IF r.raised = NoError THEN AlignedStackSize(r.stack_size)
                         ELSE r.stack_size
        /\ pc' = IF r.raised = NoError THEN "toplevel" ELSE pc
    /\ UNCHANGED <<source_code, tokens, loop_end_stack, data_section, frames, asm,
                   output>>

(***************************************************************************)
(* Assembly text.  A line is an instruction record; an operand records its *)
(* kind, its text and its number.                                          *)
(***************************************************************************)
None == [k |-> "none", s |-> "", n |-> 0]
Text(t) == [k |-> "text", s |-> t, n |-> 0]
Imm(lexeme) == [k |-> "imm", s |-> lexeme, n |-> 0]
ImmInt(v) == [k |-> "imm", s |-> "", n |-> v]
Reg(r) == [k |-> "reg", s |-> r, n |-> 0]
\* f"{mem_location}": the text "-<offset>(%rbp)", or "None" for a row without one
Mem(mem_location) ==
    IF mem_location = NoLocation THEN Text("None")
    ELSE [k |-> "mem", s |-> "rbp", n |-> mem_location]
LabelRef(label) == [k |-> "label", s |-> label.prefix, n |-> label.n]
RipRel(label) == [k |-> "rip", s |-> label.prefix, n |-> label.n]
Instr(op, a, b) == [op |-> op, a |-> a, b |-> b, c |-> None]
Comment(kind, a, b, c) == [op |-> kind, a |-> Text(a), b |-> Text(b), c |-> Text(c)]
PlaceLabel(label) == Instr("label:", LabelRef(label), None)
Jump(op, label) == Instr(op, LabelRef(label), None)

NUM_FMT == [prefix |-> "LC_NUM_FMT", n |-> 0]

(***************************************************************************)
(* _generate_toplevel_assembly, up to its call of the block generator.     *)
(***************************************************************************)
RodataHeader(literals) ==
    IF Len(literals) > 0 THEN <<Instr(".section", Text(".rodata"), None)>> ELSE <<>>

DataSection(literals) ==
    RodataHeader(literals)
    \o [k \in 1..Len(literals) |->
          Instr(".string", LabelRef(literals[k].label), Text(literals[k].literal))]
    \o <<Instr(".string", LabelRef(NUM_FMT), Text("%lld\\n"))>>

NoLabel == Label("", 0)

\* An activation of _generate_assembly_for_block over block_pst = pst[lo:hi]
\* (0-based, hi exclusive): its cursor i and, while it waits for a recursive
\* call to return, the statement that made the call and that statement's labels.
Frame(lo, hi) ==
    [lo |-> lo, hi |-> hi, i |-> 0, wait |-> "none", l1 |-> NoLabel, l2 |-> NoLabel]

GenerateToplevel ==
    /\ pc = "toplevel"
    /\ raised = NoError
    /\ data_section' = DataSection(string_literals)
    /\ frames' = <<Frame(0, Len(pst))>>
    /\ asm' = <<>>
    /\ pc' = "generate"
    /\ UNCHANGED <<source_code, raised, tokens, pst, symbol_table, string_literals,
                   stack_size, label_count, loop_end_stack, output>>

(***************************************************************************)
(* _generate_assembly_for_block: one iteration of its while loop per step. *)
(***************************************************************************)
Top == frames[Len(frames)]
BlockLen(f) == f.hi - f.lo
BlockRow(f, k) == pst[f.lo + k + 1]
Row == BlockRow(Top, Top.i)

Generating ==
    /\ pc = "generate"
    /\ raised = NoError
    /\ Len(frames) > 0

AtRow == Generating /\ Top.i < BlockLen(Top)

IsAssignment(f) ==
    /\ BlockRow(f, f.i).category = "Variable"
    /\ f.i + 1 < BlockLen(f)
    /\ BlockRow(f, f.i + 1).lexeme = "="

\* The brace scan: the cursor after the brace that closes the block opened
\* before i, or -1 when block_pst is exhausted first.
RECURSIVE ScanBlock(_, _, _)
ScanBlock(f, i, brace_count) ==
    IF brace_count <= 0 THEN i
    ELSE IF i >= BlockLen(f) THEN -1
    ELSE ScanBlock(f, i + 1,
                   IF BlockRow(f, i).lexeme = "{" THEN brace_count + 1
                   ELSE IF BlockRow(f, i).lexeme = "}" THEN brace_count - 1
                   ELSE brace_count)

\* raise CompilationError("Unmatched '{' bracket.", block_pst[block_start-1].line)
UnmatchedBrace(f, block_start) ==
    IF block_start - 1 < BlockLen(f)
    THEN CompilationError("Unmatched '{' bracket.", BlockRow(f, block_start - 1).line)
    ELSE IndexError

Fail(e) ==
    /\ raised' = e
    /\ UNCHANGED <<frames, asm, loop_end_stack>>

Advance(n) == frames' = [frames EXCEPT ![Len(frames)].i = @ + n]

\* The caller records where it resumes and the callee starts on block_pst[from:to].
Call(resume, wait, l1, l2, from, to) ==
    frames' = Append([frames EXCEPT ![Len(frames)] =
                         [@ EXCEPT !.i = resume, !.wait = wait, !.l1 = l1, !.l2 = l2]],
                     Frame(Top.lo + from, Top.lo + to))

GenDeclaration ==
    /\ AtRow
    /\ Row.category = "Mutability"
    /\ Advance(5)
    /\ UNCHANGED <<source_code, pc, raised, tokens, pst, symbol_table, string_literals,
                   stack_size, label_count, loop_end_stack, data_section, asm, output>>

op_map == [o \in {"+", "-", "*"} |->
              CASE o = "+" -> "addq" [] o = "-" -> "subq" [] OTHER -> "imulq"]

ArithmeticLines(op, operand2) ==
    IF op.lexeme \in DOMAIN op_map
    THEN <<Instr(op_map[op.lexeme],
                 IF operand2.category = "Variable" THEN Reg("rbx")
                 ELSE Imm(operand2.lexeme),
                 Reg("rax"))>>
    ELSE IF op.lexeme = "/"
    THEN (IF operand2.category = "NumericLiteral"
          THEN <<Instr("movq", Imm(operand2.lexeme), Reg("rbx"))>> ELSE <<>>)
         \o <<Instr("cqto", None, None), Instr("idivq", Reg("rbx"), None)>>
    ELSE <<>>

GenAssignment ==
    /\ AtRow
    /\ Row.category # "Mutability"
    /\ IsAssignment(Top)
    /\ LET f == Top
           row == Row
           i == f.i
           head == <<Comment("# assign", row.lexeme, "", "")>>
       IN IF ~(i + 2 < BlockLen(f)) THEN Fail(IndexError)
          ELSE LET val == BlockRow(f, i + 2) IN
            IF val.category = "NumericLiteral"
            THEN /\ asm' = asm \o head
                            \o <<Instr("movq", Imm(val.lexeme), Mem(row.mem_location))>>
                 /\ Advance(3)
                 /\ UNCHANGED <<raised, loop_end_stack>>
            ELSE IF /\ val.category = "Variable"
                    /\ i + 3 < BlockLen(f)
                    /\ BlockRow(f, i + 3).category = "Operator"
            THEN IF ~(i + 4 < BlockLen(f)) THEN Fail(IndexError)
                 ELSE LET op == BlockRow(f, i + 3)
                          operand2 == BlockRow(f, i + 4)
                      IN IF operand2.category \notin {"Variable", "NumericLiteral"}
                         THEN Fail(CompilationError(
                                 "Invalid right-hand side in arithmetic expression.",
                                 op.line))
                         ELSE /\ asm' = asm \o head
                                   \o <<Instr("movq", Mem(val.mem_location), Reg("rax"))>>
                                   \o (IF operand2.category = "Variable"
                                       THEN <<Instr("movq", Mem(operand2.mem_location),
                                                    Reg("rbx"))>>
                                       ELSE <<>>)
                                   \o ArithmeticLines(op, operand2)
                                   \o <<Instr("movq", Reg("rax"), Mem(row.mem_location))>>
                              /\ Advance(5)
                              /\ UNCHANGED <<raised, loop_end_stack>>
            ELSE Fail(CompilationError("Invalid assignment expression.", row.line))
    /\ UNCHANGED <<source_code, pc, tokens, pst, symbol_table, string_literals,
                   stack_size, label_count, data_section, output>>

PrintCall ==
    <<Instr("subq", ImmInt(32), Reg("rsp")), Instr("movq", ImmInt(0), Reg("rax")),
      Instr("call", Text("printf"), None), Instr("addq", ImmInt(32), Reg("rsp"))>>

GenPrint ==
    /\ AtRow
    /\ ~IsAssignment(Top)
    /\ Row.lexeme = "print"
    /\ LET f == Top IN
        IF ~(f.i + 1 < BlockLen(f)) THEN Fail(IndexError)
        ELSE LET val == BlockRow(f, f.i + 1) IN
             /\ asm' = asm \o <<Comment("# print", val.lexeme, "", "")>>
                    \o (IF val.category = "Variable"
                        THEN <<Instr("leaq", RipRel(NUM_FMT), Reg("rcx")),
                               Instr("movq", Mem(val.mem_location), Reg("rdx"))>>
                        ELSE IF val.category = "StringLiteral"
                        THEN <<Instr("leaq",
                                     RipRel(LabelOf(string_literals, val.lexeme)),
                                     Reg("rcx"))>>
                        ELSE <<>>)
                    \o PrintCall
             /\ Advance(2)
             /\ UNCHANGED <<raised, loop_end_stack>>
    /\ UNCHANGED <<source_code, pc, tokens, pst, symbol_table, string_literals,
                   stack_size, label_count, data_section, output>>

\* The table with '>' negated as 'less', which leaves equality out.
jump_map_strict ==
    [o \in Comparators |->
        CASE o = "==" -> "jne" [] o = "!=" -> "je" [] o = ">" -> "jl"
          [] o = "<" -> "jge" [] o = ">=" -> "jl" [] OTHER -> "jg"]

jump_map ==
    [o \in Comparators |->
        CASE o = "==" -> "jne" [] o = "!=" -> "je" [] o = ">" -> "jle"
          [] o = "<" -> "jge" [] o = ">=" -> "jl" [] OTHER -> "jg"]

\* cmpq <operand2>, %rax with %rax holding op1
CompareLines(var1, operand2) ==
    <<Instr("movq", Mem(var1.mem_location), Reg("rax")),
      Instr("cmpq",
            IF operand2.category = "Variable" THEN Mem(operand2.mem_location)
            ELSE Imm(operand2.lexeme),
            Reg("rax"))>>

GenWhen ==
    /\ AtRow
    /\ ~IsAssignment(Top)
    /\ Row.lexeme = "when"
    /\ LET f == Top
           i == f.i
           else_count == NextLabelCount(label_count)
           end_count == NextLabelCount(else_count)
           else_label == Label("ELSE", else_count)
           end_label == Label("END_WHEN", end_count)
       IN
        /\ label_count' = end_count
        /\ IF ~(i + 3 < BlockLen(f)) THEN Fail(IndexError)
           ELSE LET var1 == BlockRow(f, i + 1)
                    op == BlockRow(f, i + 2)
                    operand2 == BlockRow(f, i + 3)
                    block_start == i + 5
                    after == ScanBlock(f, block_start, 1)
                IN IF operand2.category \notin {"Variable", "NumericLiteral"}
                   THEN Fail(CompilationError(
                           "Invalid right-hand side in when condition.", op.line))
                   ELSE IF op.lexeme \notin DOMAIN jump_map THEN Fail(KeyError)
                   ELSE IF after = -1 THEN Fail(UnmatchedBrace(f, block_start))
                   ELSE /\ asm' = asm
                             \o <<Comment("# when", var1.lexeme, op.lexeme,
                                          operand2.lexeme)>>
                             \o CompareLines(var1, operand2)
                             \o <<Jump(jump_map[op.lexeme], else_label)>>
                        /\ Call(after, "when", else_label, end_label,
                                block_start, after - 1)
                        /\ UNCHANGED <<raised, loop_end_stack>>
    /\ UNCHANGED <<source_code, pc, tokens, pst, symbol_table, string_literals,
                   stack_size, data_section, output>>

PushLoopEnd(stack, end_label) == Append(stack, end_label)

\* A loop exit that leaves its label on the stack.
KeepLoopEnd(stack) == stack

PopLoopEnd(stack) == SubSeq(stack, 1, Len(stack) - 1)

\* The label of the outermost loop instead of the innermost.
OutermostTarget(stack) == stack[1]

StopTarget(stack) == stack[Len(stack)]

GenLoop ==
    /\ AtRow
    /\ ~IsAssignment(Top)
    /\ Row.lexeme = "loop"
    /\ LET f == Top
           start_count == NextLabelCount(label_count)
           end_count == NextLabelCount(start_count)
           start_label == Label("LOOP_START", start_count)
           end_label == Label("LOOP_END", end_count)
           block_start == f.i + 2
           after == ScanBlock(f, block_start, 1)
       IN
        /\ label_count' = end_count
        /\ loop_end_stack' = PushLoopEnd(loop_end_stack, end_label)
        /\ IF after = -1
           THEN /\ raised' = UnmatchedBrace(f, block_start)
                /\ UNCHANGED <<frames, asm>>
           ELSE /\ asm' = Append(asm, PlaceLabel(start_label))
                /\ Call(after, "loop", start_label, end_label, block_start, after - 1)
                /\ UNCHANGED raised
    /\ UNCHANGED <<source_code, pc, tokens, pst, symbol_table, string_literals,
                   stack_size, data_section, output>>

GenStop ==
    /\ AtRow
    /\ ~IsAssignment(Top)
    /\ Row.lexeme = "stop"
    /\ IF Len(loop_end_stack) = 0
       THEN Fail(CompilationError("'stop' can only be used inside a loop.", Row.line))
       ELSE /\ asm' = Append(asm, Jump("jmp", StopTarget(loop_end_stack)))
            /\ Advance(2)
            /\ UNCHANGED <<raised, loop_end_stack>>
    /\ UNCHANGED <<source_code, pc, tokens, pst, symbol_table, string_literals,
                   stack_size, label_count, data_section, output>>

\* No statement starts at the row: the final i += 1 of the loop body.
GenSkip ==
    /\ AtRow
    /\ Row.category # "Mutability"
    /\ ~IsAssignment(Top)
    /\ Row.lexeme \notin {"print", "when", "loop", "stop"}
    /\ Advance(1)
    /\ UNCHANGED <<source_code, pc, raised, tokens, pst, symbol_table, string_literals,
                   stack_size, label_count, loop_end_stack, data_section, asm, output>>

(***************************************************************************)
(* The return of a recursive call: the activation on top has left its      *)
(* while loop and the caller continues after asm.extend(...).              *)
(***************************************************************************)
Returning(wait) ==
    /\ Generating
    /\ Top.i >= BlockLen(Top)
    /\ Len(frames) > 1
    /\ frames[Len(frames) - 1].wait = wait

Caller == frames[Len(frames) - 1]

Resume == [Caller EXCEPT !.wait = "none", !.l1 = NoLabel, !.l2 = NoLabel]

Callers == SubSeq(frames, 1, Len(frames) - 2)

ReturnToWhen ==
    /\ Returning("when")
    /\ LET f == Caller
           i == f.i
           else_label == f.l1
           end_label == f.l2
           lines == <<Jump("jmp", end_label), PlaceLabel(else_label)>>
       IN IF i < BlockLen(f) /\ BlockRow(f, i).lexeme = "other"
          THEN LET block_start == i + 2
                   after == ScanBlock(f, block_start, 1)
               IN IF after = -1
                  THEN /\ raised' = UnmatchedBrace(f, block_start)
                       /\ UNCHANGED <<frames, asm>>
                  ELSE /\ asm' = asm \o lines
                       /\ frames' = Callers
                              \o <<[f EXCEPT !.i = after, !.wait = "other"],
                                   Frame(f.lo + block_start, f.lo + after - 1)>>
                       /\ UNCHANGED raised
          ELSE /\ asm' = asm \o lines \o <<PlaceLabel(end_label)>>
               /\ frames' = Append(Callers, Resume)
               /\ UNCHANGED raised
    /\ UNCHANGED <<source_code, pc, tokens, pst, symbol_table, string_literals,
                   stack_size, label_count, loop_end_stack, data_section, output>>

ReturnToOther ==
    /\ Returning("other")
    /\ asm' = Append(asm, PlaceLabel(Caller.l2))
    /\ frames' = Append(Callers, Resume)
    /\ UNCHANGED <<source_code, pc, raised, tokens, pst, symbol_table, string_literals,
                   stack_size, label_count, loop_end_stack, data_section, output>>

ReturnToLoop ==
    /\ Returning("loop")
    /\ asm' = asm \o <<Jump("jmp", Caller.l1), PlaceLabel(Caller.l2)>>
    /\ loop_end_stack' = PopLoopEnd(loop_end_stack)
    /\ frames' = Append(Callers, Resume)
    /\ UNCHANGED <<source_code, pc, raised, tokens, pst, symbol_table, string_literals,
                   stack_size, label_count, data_section, output>>

(***************************************************************************)
(* _generate_toplevel_assembly after the call: the whole of full_assembly. *)
(***************************************************************************)
main_prologue(size) ==
    <<Instr(".section", Text(".text"), None), Instr(".globl", Text("main"), None),
      Instr("label:", Text("main"), None), Instr("pushq", Reg("rbp"), None),
      Instr("movq", Reg("rsp"), Reg("rbp")),
      IF size > 0 THEN Instr("subq", ImmInt(size), Reg("rsp"))
      ELSE Instr("", None, None)>>

main_epilogue ==
    <<Instr("movq", ImmInt(0), Reg("rax")), Instr("leave", None, None),
      Instr("ret", None, None)>>

ReturnToToplevel ==
    /\ Generating
    /\ Top.i >= BlockLen(Top)
    /\ Len(frames) = 1
    /\ output' = data_section \o main_prologue(stack_size) \o asm \o main_epilogue
    /\ frames' = <<>>
    /\ pc' = "done"
    /\ UNCHANGED <<source_code, raised, tokens, pst, symbol_table, string_literals,
                   stack_size, label_count, loop_end_stack, data_section, asm>>

Next ==
    \/ Tokenize
    \/ Categorize
    \/ Analyze
    \/ GenerateToplevel
    \/ GenDeclaration
    \/ GenAssignment
    \/ GenPrint
    \/ GenWhen
    \/ GenLoop
    \/ GenStop
    \/ GenSkip
    \/ ReturnToWhen
    \/ ReturnToOther
    \/ ReturnToLoop
    \/ ReturnToToplevel

(***************************************************************************)
(* Source texts.  A program is a concatenation of pieces; the pieces of a  *)
(* family are statements and block delimiters of the language (or, for the *)
(* unstructured family, any lexical items).                                *)
(***************************************************************************)
RECURSIVE Flatten(_)
Flatten(chosen) ==
    IF Len(chosen) = 0 THEN <<>> ELSE Head(chosen) \o Flatten(Tail(chosen))

\* source_code is some concatenation of at most n pieces after the prefix.
Concatenation(prefix, pieces, n) ==
    \E k \in 0..n : \E chosen \in [1..k -> pieces] :
        source_code = prefix \o Flatten(chosen)

Prelude == <<"let", ".x", ":", "num", ";">>

\* Loops, conditionals and early exits, nested by concatenation.
ControlPieces ==
    { <<"loop", "{">>, <<"loop", "{", "stop", ";">>, <<"}">>, <<"}", "stop", ";">>,
      <<"when", ".x", "==", "1", "{", "stop", ";">>, <<"}", "other", "{">> }

\* Conditionals over every comparator, with a numeric or a variable operand.
ComparePieces ==
    { <<"when", ".x", c, "1", "{">> : c \in Comparators }
    \cup { <<"when", ".x", "<", ".x", "{", "print", ".x", ";">>,
           <<"}", "other", "{">>, <<"}">> }

\* Declarations, uses and string literals, on one line or several.
DeclPieces ==
    { <<"let", ".x", ":", "num", ";">>, <<"fix", "\n", ".x", ":", "num", ";">>,
      <<"\n", "let", ".y", ":", "num", ";">>,
      <<"\"a\"">>, <<"\"b\"">>, <<"print", "\"c\"", ";">>,
      <<"print", ".x", ";">>, <<"loop", "{">> }

\* Straight-line statements.
StatementPrograms ==
    { Prelude \o <<".x", "=", "5", ";", ".x", "=", ".x", "+", "1", ";", "print", ".x", ";">>,
      Prelude \o <<".x", "=", ".x", "/", "-3", ";", ".x", "=", ".x", "*", ".x", ";">>,
      Prelude \o <<"##", "\n", ".x", "=", ".x", "-", ".x", ";", "print", "\"a\"", ";">> }

\* Unstructured texts: any lexical item, and some statement fragments.
RawPieces ==
    { <<l>> : l \in {".x", "1", "\"a\"", "=", "+", "==", "{", "}", ";", ":", "num",
                     "when", "other", "loop", "stop", "print", "let", "foo", "@",
                     "\n"} }
    \cup { <<"when", ".x", "==", "1", "{">>, <<"when", ".x", "+", "1", "{">>,
           <<"}", "other", "{">>,
           <<".x", "=", "1", "+", "1", ";">>, <<".x", "=", ".x", "==", "1", ";">>,
           <<".x", "=", ".x", ";">>, <<".x", "=", ".x", "+", "1", ";">> }

Start ==
    /\ pc = "tokenize"
    /\ raised = NoError
    /\ tokens = <<>>
    /\ pst = <<>>
    /\ symbol_table = EmptyTable
    /\ string_literals = <<>>
    /\ stack_size = 0
    /\ label_count = 0
    /\ loop_end_stack = <<>>
    /\ data_section = <<>>
    /\ frames = <<>>
    /\ asm = <<>>
    /\ output = <<>>

Init ==
    /\ \/ Concatenation(Prelude, ControlPieces, MaxControl)
       \/ Concatenation(Prelude, ComparePieces, MaxCompare)
       \/ Concatenation(<<>>, DeclPieces, MaxDecl)
       \/ source_code \in StatementPrograms
    /\ Start

Spec == Init /\ [][Next]_vars

InitRaw ==
    /\ \/ Concatenation(<<>>, RawPieces, MaxRaw)
       \/ Concatenation(Prelude, RawPieces, MaxRaw)
    /\ Start

SpecRaw == InitRaw /\ [][Next]_vars

(***************************************************************************)
(* The lexical structure of the token sequence, read off pst alone         *)
(* (positions are 1-based).                                                *)
(***************************************************************************)
Positions == 1..Len(pst)
Lexeme(p) == pst[p].lexeme

\* The position of the brace closing the block entered before p, at the
\* given depth; Len(pst) + 1 when the input ends first.
RECURSIVE ClosingBrace(_, _)
ClosingBrace(p, depth) ==
    IF p > Len(pst) THEN Len(pst) + 1
    ELSE IF Lexeme(p) = "{" THEN ClosingBrace(p + 1, depth + 1)
    ELSE IF Lexeme(p) = "}"
         THEN (IF depth = 1 THEN p ELSE ClosingBrace(p + 1, depth - 1))
    ELSE ClosingBrace(p + 1, depth)

UnmatchedOpenBraces ==
    {p \in Positions : Lexeme(p) = "{" /\ ClosingBrace(p + 1, 1) > Len(pst)}

IsLoop(q) == Lexeme(q) = "loop" /\ q + 1 <= Len(pst) /\ Lexeme(q + 1) = "{"

\* The loops whose body (the tokens between the braces) contains position p.
EnclosingLoops(p) ==
    {q \in Positions : IsLoop(q) /\ q + 2 <= p /\ p < ClosingBrace(q + 2, 1)}

InnermostLoop(p) == CHOOSE q \in EnclosingLoops(p) : \A r \in EnclosingLoops(p) : r <= q

StopPositions ==
    SelectSeq([k \in Positions |-> k], LAMBDA k : Lexeme(k) = "stop")

\* Labels are numbered in source order: one per distinct string literal, then
\* two per when or loop statement.
LabelsBefore(q) ==
    Len(string_literals)
    + 2 * Cardinality({k \in 1..(q - 1) : Lexeme(k) \in {"when", "loop"}})
StartLabelOfLoop(q) == Label("LOOP_START", LabelsBefore(q) + 1)
EndLabelOfLoop(q) == Label("LOOP_END", LabelsBefore(q) + 2)

Analysed == pc \in {"toplevel", "generate", "done"}

(***************************************************************************)
(* C1: a source text with an opening brace that no closing brace matches   *)
(* is rejected with the unmatched-brace error and returns no assembly; in  *)
(* particular compile() never returns for such a text.                     *)
(***************************************************************************)
C1_UnmatchedBraceRejected ==
    pc = "done" => UnmatchedOpenBraces = {}

(***************************************************************************)
(* C2: Generation succeeds only when the right-hand side of every          *)
(* assignment statement (the tokens after '=' up to the next ';') is a     *)
(* single literal or 'operand operator operand' with an arithmetic         *)
(* operator.                                                               *)
(***************************************************************************)
StartsStatement(p) == p = 1 \/ Lexeme(p - 1) \in {";", "{", "}"}

AssignmentPositions ==
    {p \in Positions : /\ pst[p].category = "Variable"
                       /\ p + 1 <= Len(pst)
                       /\ Lexeme(p + 1) = "="
                       /\ StartsStatement(p)}

RECURSIVE StatementEnd(_)
StatementEnd(p) ==
    IF p > Len(pst) \/ Lexeme(p) = ";" THEN p ELSE StatementEnd(p + 1)

RightHandSide(p) == SubSeq(pst, p + 2, StatementEnd(p + 2) - 1)

IsOperand(row) == row.category \in {"Variable", "NumericLiteral"}

AllowedRightHandSide(rhs) ==
    \/ Len(rhs) = 1 /\ rhs[1].category \in {"NumericLiteral", "StringLiteral"}
    \/ /\ Len(rhs) = 3
       /\ IsOperand(rhs[1])
       /\ rhs[2].lexeme \in {"+", "-", "*", "/"}
       /\ IsOperand(rhs[3])

C2_AssignmentShapeEnforced ==
    pc = "done" => \A p \in AssignmentPositions : AllowedRightHandSide(RightHandSide(p))

(***************************************************************************)
(* C3: a 'stop' that is not inside any loop body makes Generation fail: no *)
(* compilation completes with such a 'stop' skipped or compiled.           *)
(***************************************************************************)
C3_StopOutsideLoopRejected ==
    pc = "done" =>
        \A j \in 1..Len(StopPositions) : EnclosingLoops(StopPositions[j]) # {}

(***************************************************************************)
(* C4: compile() returns the complete assembly or fails with exactly one   *)
(* error of the compilation-error taxonomy, never in another way and never *)
(* with partial output.                                                    *)
(***************************************************************************)
Taxonomy ==
    {"Unexpected character", "Unknown symbol", "Invalid variable declaration.",
     "Incomplete variable declaration.", "already declared",
     "Use of undeclared variable",
     "Invalid right-hand side in arithmetic expression.",
     "Invalid assignment expression.", "Invalid right-hand side in when condition.",
     "'stop' can only be used inside a loop.", "Unmatched '{' bracket."}

C4_OnlyCompilationErrors ==
    /\ raised # NoError => raised.type = "CompilationError" /\ raised.message \in Taxonomy
    /\ pc # "done" => output = <<>>

(***************************************************************************)
(* C7: the output of a successful compilation starts with the read-only    *)
(* data section: its header, one .string directive per distinct string     *)
(* literal, the numeric-format constant, and only then the text section,   *)
(* for every number of string literals, zero included.                     *)
(***************************************************************************)
Literals == {Lexeme(p) : p \in {q \in Positions : pst[q].category = "StringLiteral"}}

C7_ReadOnlyDataSectionFirst ==
    pc = "done" =>
        LET n == Cardinality(Literals) IN
        /\ Len(output) >= n + 3
        /\ output[1] = Instr(".section", Text(".rodata"), None)
        /\ \A k \in 1..n : output[1 + k].op = ".string" /\ output[1 + k].b.s \in Literals
        /\ \A j, k \in 1..n : j # k => output[1 + j].b # output[1 + k].b
        /\ output[n + 2] = Instr(".string", LabelRef(NUM_FMT), Text("%lld\\n"))
        /\ output[n + 3] = Instr(".section", Text(".text"), None)

(***************************************************************************)
(* C5: for each comparator, the branch emitted after comparing op1 with    *)
(* op2 is taken (to the else-label) exactly when 'op1 cmp op2' is false,   *)
(* for all signed values; the when-block follows the branch and ends with  *)
(* a jump over the other-block, which follows the else-label.              *)
(***************************************************************************)
Values == (0 - MaxVal)..MaxVal

Holds(cmp, a, b) ==
    CASE cmp = "==" -> a = b [] cmp = "!=" -> a # b [] cmp = ">" -> a > b
      [] cmp = "<" -> a < b [] cmp = ">=" -> a >= b [] cmp = "<=" -> a <= b

\* After 'cmpq S, D' a conditional jump tests D against S as signed integers.
BranchTaken(jump, d, src) ==
    CASE jump = "je" -> d = src [] jump = "jne" -> d # src [] jump = "jl" -> d < src
      [] jump = "jle" -> d <= src [] jump = "jg" -> d > src [] jump = "jge" -> d >= src
      [] OTHER -> FALSE

OperandOf(lexeme) ==
    IF lexeme \in DOMAIN symbol_table THEN Mem(symbol_table[lexeme].mem_location)
    ELSE Imm(lexeme)

WhenLines == {k \in 1..Len(asm) : asm[k].op = "# when"}

PlacesOf(label) == {k \in 1..Len(asm) : asm[k] = PlaceLabel(label)}

C5_NegatedBranch ==
    \A k \in WhenLines :
        LET cmp == asm[k].b.s
            branch == asm[k + 3]
            else_label == Label("ELSE", branch.a.n)
            end_label == Label("END_WHEN", branch.a.n + 1)
        IN
        /\ cmp \in Comparators
        \* %rax holds op1 and is compared with op2
        /\ asm[k + 1] = Instr("movq", OperandOf(asm[k].a.s), Reg("rax"))
        /\ asm[k + 2] = Instr("cmpq", OperandOf(asm[k].c.s), Reg("rax"))
        /\ branch.a = LabelRef(else_label)
        /\ \A a, b \in Values : BranchTaken(branch.op, a, b) <=> ~Holds(cmp, a, b)
        /\ pc = "done" =>
             /\ Cardinality(PlacesOf(else_label)) = 1
             /\ Cardinality(PlacesOf(end_label)) = 1
             /\ \A e \in PlacesOf(else_label) :
                  /\ e > k + 3
                  /\ asm[e - 1] = Jump("jmp", end_label)
                  /\ \A d \in PlacesOf(end_label) : d > e

\* A compiled when/other statement that tests 'greater than'.
C5_Witness ==
    /\ pc = "done"
    /\ \E p \in Positions : Lexeme(p) = "other"
    /\ \E k \in WhenLines : asm[k].b.s = ">" /\ asm[k].c.s = "1"

(***************************************************************************)
(* C6: in a compiled program every 'stop' jumps to the end-label of the    *)
(* innermost loop whose body contains it, and each loop's end-label is     *)
(* placed exactly once, right after the loop's jump back to its start.     *)
(***************************************************************************)
LoopExits == SelectSeq(output, LAMBDA l : l.op = "jmp" /\ l.a.s = "LOOP_END")

C6_StopTargetsInnermostLoop ==
    pc = "done" =>
        /\ Len(LoopExits) = Len(StopPositions)
        /\ \A j \in 1..Len(StopPositions) :
             /\ EnclosingLoops(StopPositions[j]) # {}
             /\ LoopExits[j] =
                    Jump("jmp", EndLabelOfLoop(InnermostLoop(StopPositions[j])))
        /\ \A q \in {r \in Positions : Lexeme(r) = "loop"} :
             LET places == {k \in 1..Len(output) :
                               output[k] = PlaceLabel(EndLabelOfLoop(q))}
             IN /\ Cardinality(places) = 1
                /\ \A k \in places : output[k - 1] = Jump("jmp", StartLabelOfLoop(q))

\* An outer loop with a stop after an inner loop that has its own stop.
C6_Witness ==
    /\ pc = "done"
    /\ \E i, j \in 1..Len(StopPositions) :
         /\ i < j
         /\ Cardinality(EnclosingLoops(StopPositions[i])) = 2
         /\ Cardinality(EnclosingLoops(StopPositions[j])) = 1
         /\ InnermostLoop(StopPositions[j]) < InnermostLoop(StopPositions[i])

(***************************************************************************)
(* C8: the string-constant table gives each distinct string literal one    *)
(* label, assigned at its first occurrence: identical literals resolve to  *)
(* the same label, distinct literals to distinct labels.                   *)
(***************************************************************************)
FirstOccurrence(l) ==
    CHOOSE p \in Positions : Lexeme(p) = l /\ \A q \in 1..(p - 1) : Lexeme(q) # l

RankOfLiteral(l) ==
    Cardinality({m \in Literals : FirstOccurrence(m) <= FirstOccurrence(l)})

C8_OneLabelPerLiteral ==
    /\ \A j, k \in 1..Len(string_literals) :
         j # k => /\ string_literals[j].literal # string_literals[k].literal
                  /\ string_literals[j].label # string_literals[k].label
    /\ Analysed =>
         /\ {string_literals[k].literal : k \in 1..Len(string_literals)} = Literals
         /\ \A k \in 1..Len(string_literals) :
              string_literals[k].label =
                  Label("STR", RankOfLiteral(string_literals[k].literal))
         \* every printed occurrence resolves to its literal's label
         /\ \A k \in 1..Len(asm) :
              (asm[k].op = "# print" /\ asm[k].a.s \in StringLexemes) =>
                  asm[k + 1] = Instr("leaq",
                                     RipRel(Label("STR", RankOfLiteral(asm[k].a.s))),
                                     Reg("rcx"))

\* Two distinct literals, the first of them occurring again after the second.
C8_Witness ==
    /\ Analysed
    /\ Len(string_literals) >= 2
    /\ \E p, q, r \in Positions :
         /\ p < q /\ q < r
         /\ pst[p].category = "StringLiteral"
         /\ pst[q].category = "StringLiteral"
         /\ Lexeme(p) = Lexeme(r)
         /\ Lexeme(p) # Lexeme(q)

(***************************************************************************)
(* C9: a second declaration of a name declared earlier fails Analysis with *)
(* the duplicate-declaration error on the line of the variable's second    *)
(* occurrence, whatever the brace depth, unless an earlier token has       *)
(* already failed; the symbol table keeps the first declaration's entry.   *)
(***************************************************************************)
IsDeclaration(k) ==
    /\ pst[k].category = "Mutability"
    /\ k + 4 <= Len(pst)
    /\ pst[k + 1].category = "Variable"
    /\ Lexeme(k + 2) = ":"
    /\ pst[k + 3].category = "Type"
    /\ Lexeme(k + 4) = ";"

Declarations == {k \in Positions : IsDeclaration(k)}

DeclaredBefore(name, p) ==
    \E j \in Declarations : j < p /\ Lexeme(j + 1) = name

Redeclarations == {k \in Declarations : DeclaredBefore(Lexeme(k + 1), k)}

\* Tokens at which Analysis fails for another reason.
OtherAnalysisErrors ==
    {m \in Positions : pst[m].category = "Mutability" /\ ~IsDeclaration(m)}
    \cup {u \in Positions : /\ pst[u].category = "Variable"
                            /\ ~(u > 1 /\ IsDeclaration(u - 1))
                            /\ ~DeclaredBefore(Lexeme(u), u)}

FirstRedeclaration ==
    CHOOSE k \in Redeclarations : \A j \in Redeclarations : k <= j

DuplicateError == CompilationError("already declared", pst[FirstRedeclaration + 1].line)

AnalysisEnded == Analysed \/ (pc = "analyze" /\ raised # NoError)

C9_DuplicateDeclaration ==
    /\ Redeclarations # {} => ~Analysed
    /\ (AnalysisEnded /\ Redeclarations # {}
           /\ \A m \in OtherAnalysisErrors : m > FirstRedeclaration)
         => raised = DuplicateError
    /\ raised.message = "already declared" =>
         /\ Redeclarations # {}
         /\ raised = DuplicateError
         /\ LET name == Lexeme(FirstRedeclaration + 1)
                first == CHOOSE j \in Declarations :
                            /\ Lexeme(j + 1) = name
                            /\ \A i \in Declarations : Lexeme(i + 1) = name => j <= i
            IN /\ name \in DOMAIN symbol_table
               /\ symbol_table[name] = pst[first + 1]
               /\ symbol_table[name].line = pst[first + 1].line
               /\ DOMAIN symbol_table =
                     {Lexeme(j + 1) : j \in {i \in Declarations : i < FirstRedeclaration}}

\* A redeclaration inside a block, its keyword and its variable on two lines.
C9_Witness ==
    /\ raised.message = "already declared"
    /\ pst[FirstRedeclaration].line # pst[FirstRedeclaration + 1].line
    /\ \E p \in 1..FirstRedeclaration : Lexeme(p) = "{"

(***************************************************************************)
(* C10: wherever Generation stands, the loop-label stack holds exactly the *)
(* end-labels of the loops whose bodies contain the current token, the     *)
(* outermost first; it is empty outside every loop and when Generation     *)
(* has completed.                                                          *)
(***************************************************************************)
Cursor == Top.lo + Top.i + 1

NthLoop(loops, d) == CHOOSE q \in loops : Cardinality({r \in loops : r < q}) = d - 1

C10_StackMatchesNesting ==
    /\ AtRow =>
         LET loops == EnclosingLoops(Cursor) IN
         /\ Len(loop_end_stack) = Cardinality(loops)
         /\ \A d \in 1..Len(loop_end_stack) :
              loop_end_stack[d] = EndLabelOfLoop(NthLoop(loops, d))
    /\ pc = "done" => loop_end_stack = <<>>

\* Back in the outer loop's body after an inner loop has been left.
C10_Witness ==
    /\ AtRow
    /\ Len(loop_end_stack) = 1
    /\ Row.lexeme = "stop"
    /\ \E q \in 1..(Cursor - 1) : IsLoop(q) /\ EnclosingLoops(q) # {}
                                     /\ ClosingBrace(q + 2, 1) < Cursor

====
